---- MODULE Spec2Model ----
(***************************************************************************)
(* cargo-cleans (src/src/main.rs): a concurrent walk of a directory tree   *)
(* that finds `target` directories owned by a Cargo.toml, measures them    *)
(* with a second concurrent walk, classifies them in an actor-guarded      *)
(* store, reports, and deletes the selected ones.                          *)
(*                                                                         *)
(* A tokio task is modelled by its position (wpc / spc); one action is one *)
(* synchronous segment of a task between two await points.  Tasks share no *)
(* memory except the store, which is reached through Actor::inner_call.    *)
(***************************************************************************)
EXTENDS Integers, Sequences, FiniteSets, TLC

(***************************************************************************)
(* The directory tree that is walked.  Node ids follow the order in which  *)
(* read_dir returns the entries of a directory.                            *)
(*                                                                         *)
(*   1 .                                                                   *)
(*   2 ./Cargo.toml                                                        *)
(*   3 ./target                 artifact root (2 is beside it)             *)
(*   4 ./target/Cargo.toml                                                 *)
(*   5 ./target/target          marker with manifest, below root 3         *)
(*   6 ./target/target/b.bin                                               *)
(*   7 ./.git                                                              *)
(*   8 ./.git/Cargo.toml                                                   *)
(*   9 ./.git/target            marker with manifest, below .git           *)
(*  10 ./lib                                                               *)
(*  11 ./lib/target             marker without manifest                    *)
(*  12 ./lib/target/Cargo.toml                                             *)
(*  13 ./lib/target/target      artifact root (12 is beside it)            *)
(*  14 ./lib/target/target/c.bin                                           *)
(***************************************************************************)
\* No node: the parent of the directory the tree starts at.
NoNode == 0

\* The parent directory of every node.
Parent == <<0, 1, 1, 3, 3, 5, 1, 7, 7, 1, 10, 11, 11, 13>>

Nodes == 1..Len(Parent)

\* The file name of every node.
Name ==
  <<".", "Cargo.toml", "target", "Cargo.toml", "target", "b.bin", ".git",
    "Cargo.toml", "target", "lib", "target", "Cargo.toml", "target", "c.bin">>

\* The nodes that are directories; the others are regular files.
Dirs == {1, 3, 5, 7, 9, 10, 11, 13}

Files == Nodes \ Dirs

\* Seconds in one day: 60 * 60 * 24 at main.rs:213.
SecsPerDay == 60 * 60 * 24

\* Bytes in one megabyte: 1024 * 1024 at main.rs:202.
MiB == 1024 * 1024

\* The modification time, in seconds, of every node.
MTime ==
  <<864000, 864000, 864000, 864000, 864000, 864000, 864000,
    864000, 864001, 864000, 864000, 864000, 864001, 864000>>

(***************************************************************************)
(* Bounds of the model.                                                    *)
(***************************************************************************)
\* --keep-days ranges over 0..MaxKeepDays.
MaxKeepDays == 1

\* --keep-size ranges over 0..MaxKeepSize megabytes.
MaxKeepSize == 1

\* The clock reads MTime[3] plus 0..MaxClockDays whole days.
MaxClockDays == 1

\* At most this many directories cannot be listed.
MaxUnreadable == 1

\* --keep-size ranges up to MaxKeepSizeHi * 2^44 + MaxKeepSize megabytes;
\* 2^44 megabytes are 2^64 bytes.
MaxKeepSizeHi == 1

\* Directories the walk is started on (--root-dir).
ScanRoots == {1, 9}

\* The lengths a measured file may have.
FileLens(f) ==
  CASE f = 4 -> {MiB}
    [] f = 14 -> {0, MiB}
    [] OTHER -> {1}

VARIABLES
  present,      \* the nodes that exist in the filesystem
  unreadable,   \* the directories read_dir fails on
  flen,         \* the length of every regular file
  now,          \* the clock SystemTime::elapsed reads
  scan_root,    \* Arg::root_dir
  keep_days,    \* PathInfoStore::keep_days
  keep_size,    \* PathInfoStore::keep_size, in bytes
  arg_keep_size,\* Arg::keep_size, in megabytes: hi * 2^44 + lo
  tested,       \* the flags of Arg main has tested so far
  flags,        \* those of them it found set
  inp,          \* the String main reads the answer into
  stdout,       \* what display has printed
  projects,     \* PathInfoStore::projects
  ignores,      \* PathInfoStore::ignores
  actor,        \* the task running a closure of Actor::inner_call
  wpc,          \* position of the iter_path task of every directory
  wkids,        \* its join handles not yet awaited
  spc,          \* position of the iter_file_size task of every node
  skids,        \* its join handles not yet awaited
  slen,         \* its `len` accumulator, and its result once done
  mainpc,       \* position of main
  clean_i,      \* position of the loop of PathInfoStore::clean
  rm_log        \* the remove_dir_all calls made so far, with their outcome

vars ==
  <<present, unreadable, flen, now, scan_root, keep_days, keep_size,
    arg_keep_size, tested, flags, inp, stdout,
    projects, ignores, actor, wpc, wkids, spc, skids, slen, mainpc,
    clean_i, rm_log>>

fsVars == <<unreadable, flen, now>>
argVars == <<scan_root, keep_days, keep_size, arg_keep_size>>
ioVars == <<tested, flags, inp, stdout>>
storeVars == <<projects, ignores>>
walkVars == <<wpc, wkids>>
sizeVars == <<spc, skids, slen>>
cleanVars == <<clean_i, rm_log>>

(***************************************************************************)
(* Paths.                                                                  *)
(***************************************************************************)
RECURSIVE Up(_)
\* The strict ancestors of node n, by walking up.
Up(n) == IF Parent[n] = NoNode THEN {} ELSE {Parent[n]} \cup Up(Parent[n])

\* The strict ancestors of every node.
AncestorsOf == [n \in Nodes |-> Up(n)]

\* The strict ancestors of node n.
Ancestors(n) == AncestorsOf[n]

\* Node a lies strictly below node b.
Below(a, b) == b \in AncestorsOf[a]

\* The subtree rooted at every node, the node included.
SubtreeOf == [n \in Nodes |-> {n} \cup {m \in Nodes : n \in AncestorsOf[m]}]

\* The subtree rooted at n, n included.
Subtree(n) == SubtreeOf[n]

\* Path::file_name: None for ".".
file_name(n) == IF Name[n] = "." THEN "" ELSE Name[n]

\* cargo_path.exists(): parent/Cargo.toml exists.
cargo_path_exists(n) ==
  \E m \in present : Parent[m] = Parent[n] /\ Name[m] = "Cargo.toml"

RECURSIVE SeqOf(_, _)
\* The members of S from node i on, in directory order.
SeqOf(S, i) ==
  IF i > Len(Parent) THEN <<>>
  ELSE IF i \in S THEN <<i>> \o SeqOf(S, i + 1) ELSE SeqOf(S, i + 1)

\* path.read_dir() succeeds.
read_dir_ok(d) == d \in present /\ d \in Dirs /\ d \notin unreadable

\* The entries read_dir yields for d.
Entries(d) == {m \in present : Parent[m] = d}

(***************************************************************************)
(* PathInfoStore (main.rs:193-249).                                        *)
(***************************************************************************)
\* PathInfoStore::new: megabytes to bytes, in u64.  With mb = hi * 2^44 + lo
\* the product is hi * 2^64 + lo * 2^20, of which u64 keeps lo * 2^20.
to_bytes(mb) == mb.lo * MiB

\* keep_size * 1024 * 1024 does not fit u64: a build with overflow checks
\* panics there, a build without them goes on with to_bytes(mb).
overflows(mb) == mb.hi > 0

\* The PathInfo iter_path builds for artifact root n (main.rs:109-113).
PathInfo(n) == [path |-> n, last_modified |-> MTime[n], size |-> slen[n]]

\* push with the failure of elapsed() taken as the greatest age.
days_elapsed_max(info) ==
  IF now >= info.last_modified
  THEN (now - info.last_modified) \div SecsPerDay
  ELSE 2147483647

\* push: whole days since last_modified; 0 when elapsed() fails because
\* last_modified is later than the clock.
days_elapsed(info) ==
  IF now >= info.last_modified
  THEN (now - info.last_modified) \div SecsPerDay
  ELSE 0

\* The test of push with `<` for `<=`.
is_ignored_lt(info) ==
  info.size < keep_size \/ days_elapsed(info) < keep_days

\* push: the test that sends a record to `ignores`.
is_ignored(info) ==
  info.size <= keep_size \/ days_elapsed(info) < keep_days

\* push: `ignores` after the call.
push_ignores(info) ==
  IF is_ignored(info) THEN Append(ignores, info) ELSE ignores

\* push: `projects` after the call.
push_projects(info) ==
  IF is_ignored(info) THEN projects ELSE Append(projects, info)

(***************************************************************************)
(* The initial state: the arguments are parsed, the store is built, and    *)
(* main is about to test that the root exists.                             *)
(***************************************************************************)
InitWide ==
  /\ present = Nodes
  /\ unreadable \in {S \in SUBSET Dirs : Cardinality(S) <= MaxUnreadable}
  /\ flen \in {g \in [Files -> UNION {FileLens(f) : f \in Files}] :
                 \A f \in Files : g[f] \in FileLens(f)}
  /\ now \in {MTime[3] + k * SecsPerDay : k \in 0..MaxClockDays}
  /\ scan_root \in ScanRoots
  /\ keep_days \in 0..MaxKeepDays
  /\ arg_keep_size \in [hi : 0..MaxKeepSizeHi, lo : 0..MaxKeepSize]
  /\ keep_size = to_bytes(arg_keep_size)
  /\ tested = {}
  /\ flags = {}
  /\ inp = <<>>
  /\ stdout = <<>>
  /\ projects = <<>>
  /\ ignores = <<>>
  /\ actor = NoNode
  /\ wpc = [n \in Dirs |-> "idle"]
  /\ wkids = [n \in Dirs |-> <<>>]
  /\ spc = [n \in Nodes |-> "idle"]
  /\ skids = [n \in Nodes |-> <<>>]
  /\ slen = [n \in Nodes |-> 0]
  /\ mainpc = "start"
  /\ clean_i = 1
  /\ rm_log = <<>>

\* The same with a --keep-size whose number of bytes fits u64.
Init == InitWide /\ arg_keep_size.hi = 0

\* main.rs:43: the tasks run as long as main has not returned.
running ==
  mainpc \notin {"start", "err_root", "panic", "err_walk", "exit_dry",
                 "exit_cancelled", "err_clean", "exit_done"}

(***************************************************************************)
(* iter_path (main.rs:88-134).                                             *)
(***************************************************************************)
\* The join handles of a task are spawned: every task gets position "start".
Spawned(pc, kids) ==
  [m \in DOMAIN pc |-> IF m \in kids THEN "start" ELSE pc[m]]

\* The subdirectories iter_path spawns a task for (main.rs:124-129).
SubDirs(d) == Entries(d) \cap Dirs

\* The match without its ".git" arm.
is_git_never(n) == FALSE

\* main.rs:91: the directory is a .git directory.
is_git(n) == file_name(n) = ".git"

\* The "target" arm without the test of main.rs:103.
is_target_by_name(n) == file_name(n) = "target"

\* main.rs:92-103: the directory is named target and Cargo.toml is beside it.
is_target(n) == file_name(n) = "target" /\ cargo_path_exists(n)

\* main.rs:89-119: the match on the name of the directory.
iter_path_start(n) ==
  /\ running
  /\ wpc[n] = "start"
  /\ wpc' = [wpc EXCEPT ![n] =
               IF is_git(n) THEN "ok"
               ELSE IF is_target(n) THEN "meta"
               ELSE "list"]
  /\ UNCHANGED <<present, fsVars, argVars, ioVars, storeVars, actor, wkids,
                 sizeVars, mainpc, cleanVars>>

\* The listing failure returned as an error.
unlisted_err == "err"

\* main.rs:122: what iter_path returns for a directory it cannot list.
unlisted == "ok"

\* main.rs:120-133, up to the first await: the listing, and the spawn of one
\* task per subdirectory.
iter_path_list(n) ==
  /\ running
  /\ wpc[n] = "list"
  /\ IF ~read_dir_ok(n)
     THEN /\ wpc' = [wpc EXCEPT ![n] = unlisted]
          /\ UNCHANGED wkids
     ELSE IF SubDirs(n) = {}
     THEN /\ wpc' = [wpc EXCEPT ![n] = "ok"]
          /\ UNCHANGED wkids
     ELSE /\ wpc' = [Spawned(wpc, SubDirs(n)) EXCEPT ![n] = "join"]
          /\ wkids' = [wkids EXCEPT ![n] = SeqOf(SubDirs(n), 1)]
  /\ UNCHANGED <<present, fsVars, argVars, ioVars, storeVars, actor, sizeVars,
                 mainpc, cleanVars>>

\* main.rs:104-105: path.metadata()?.modified()?, then the call of
\* iter_file_size on the same path.
iter_path_meta(n) ==
  /\ running
  /\ wpc[n] = "meta"
  /\ IF n \in present
     THEN /\ wpc' = [wpc EXCEPT ![n] = "size"]
          /\ spc' = [spc EXCEPT ![n] = "start"]
     ELSE /\ wpc' = [wpc EXCEPT ![n] = "err"]
          /\ UNCHANGED spc
  /\ UNCHANGED <<present, fsVars, argVars, ioVars, storeVars, actor, wkids, skids,
                 slen, mainpc, cleanVars>>

\* main.rs:105-114: iter_file_size has returned; add_path_info is called and
\* waits for the actor.
iter_path_sized(n) ==
  /\ running
  /\ wpc[n] = "size"
  /\ spc[n] = "done"
  /\ wpc' = [wpc EXCEPT ![n] = "add"]
  /\ UNCHANGED <<present, fsVars, argVars, ioVars, storeVars, actor, wkids, sizeVars,
                 mainpc, cleanVars>>

\* inner_call that admits a closure while another one runs.
inner_call_unguarded == TRUE

\* main.rs:263: inner_call admits one closure at a time.
inner_call_free == actor = NoNode

\* main.rs:262-263: add_path_info enters the actor.
add_path_info_call(n) ==
  /\ running
  /\ wpc[n] = "add"
  /\ inner_call_free
  /\ actor' = n
  /\ wpc' = [wpc EXCEPT ![n] = "push"]
  /\ UNCHANGED <<present, fsVars, argVars, ioVars, storeVars, wkids, sizeVars,
                 mainpc, cleanVars>>

\* iter_path without the `return` of main.rs:106: it goes on to the listing.
added_fallthrough == "list"

\* main.rs:106: iter_path returns what add_path_info returned.
added == "ok"

\* inner_call that stays taken by the closure that has returned.
inner_call_kept(n) == n

\* main.rs:263-267: the closure has returned; inner_call admits the next.
inner_call_released(n) == NoNode

\* main.rs:264-265: the closure pushes the record and returns Ok(()).
add_path_info_run(n) ==
  /\ running
  /\ wpc[n] = "push"
  /\ actor = n
  /\ ignores' = push_ignores(PathInfo(n))
  /\ projects' = push_projects(PathInfo(n))
  /\ actor' = inner_call_released(n)
  /\ wpc' = [wpc EXCEPT ![n] = added]
  /\ UNCHANGED <<present, fsVars, argVars, ioVars, wkids, sizeVars, mainpc,
                 cleanVars>>

\* The loop with the result of the child dropped.
joined_ignoring(child, left) == IF left = 1 THEN "ok" ELSE "join"

\* The loop that returns after its first handle.
joined_first_only(child, left) == IF child = "err" THEN "err" ELSE "ok"

\* main.rs:130-133: where iter_path stands after join.await?? on a child
\* that ended at `child`, with `left` handles not yet awaited, this one
\* included: an Err is returned at once, Ok(()) follows the last handle.
joined(child, left) ==
  IF child = "err" THEN "err" ELSE IF left = 1 THEN "ok" ELSE "join"

\* main.rs:130-133: join.await?? on the next handle.
iter_path_join(n) ==
  /\ running
  /\ wpc[n] = "join"
  /\ LET c == Head(wkids[n]) IN
       /\ wpc[c] \in {"ok", "err"}
       /\ wkids' = [wkids EXCEPT ![n] = Tail(wkids[n])]
       /\ wpc' = [wpc EXCEPT ![n] = joined(wpc[c], Len(wkids[n]))]
  /\ UNCHANGED <<present, fsVars, argVars, ioVars, storeVars, actor, sizeVars,
                 mainpc, cleanVars>>

(***************************************************************************)
(* iter_file_size (main.rs:138-158).                                       *)
(***************************************************************************)
\* main.rs:139: path.is_file() and path.metadata() both succeed.
is_file(n) == n \in present /\ n \in Files

\* main.rs:139-151, up to the first await.
iter_file_size_start(n) ==
  /\ running
  /\ spc[n] = "start"
  /\ IF is_file(n)
     THEN /\ slen' = [slen EXCEPT ![n] = flen[n]]
          /\ spc' = [spc EXCEPT ![n] = "done"]
          /\ UNCHANGED skids
     ELSE IF ~read_dir_ok(n) \/ Entries(n) = {}
     THEN /\ slen' = [slen EXCEPT ![n] = 0]
          /\ spc' = [spc EXCEPT ![n] = "done"]
          /\ UNCHANGED skids
     ELSE /\ slen' = [slen EXCEPT ![n] = 0]
          /\ spc' = [Spawned(spc, Entries(n)) EXCEPT ![n] = "join"]
          /\ skids' = [skids EXCEPT ![n] = SeqOf(Entries(n), 1)]
  /\ UNCHANGED <<present, fsVars, argVars, ioVars, storeVars, actor, walkVars,
                 mainpc, cleanVars>>

\* `len =` for `len +=`.
add_len_overwrite(len, size) == size

\* main.rs:153: len += the size the child returned.
add_len(len, size) == len + size

\* main.rs:152-155: len += join.await??, Ok(len) after the last handle.
iter_file_size_join(n) ==
  /\ running
  /\ spc[n] = "join"
  /\ LET c == Head(skids[n]) IN
       /\ spc[c] = "done"
       /\ slen' = [slen EXCEPT ![n] = add_len(slen[n], slen[c])]
       /\ skids' = [skids EXCEPT ![n] = Tail(skids[n])]
       /\ spc' = [spc EXCEPT ![n] =
                    IF Len(skids[n]) = 1 THEN "done" ELSE "join"]
  /\ UNCHANGED <<present, fsVars, argVars, ioVars, storeVars, actor, walkVars,
                 mainpc, cleanVars>>

(***************************************************************************)
(* PathInfoStore::clean (main.rs:243-248).                                 *)
(***************************************************************************)
\* main.rs:244: the records clean iterates over.
clean_list == projects

\* The loop without the `?` of main.rs:245.
clean_after_continue(ok) == "clean"

\* main.rs:245: where the loop stands after a remove_dir_all that returned
\* Ok (ok) or Err: `?` leaves the loop on the first Err.
clean_after(ok) == IF ok THEN "clean" ELSE "err_clean"

\* What a remove_dir_all of p that fails may already have removed: any part
\* of the contents of p, children before their parents.
PartlyRemoved(p) ==
  {D \in SUBSET ((Subtree(p) \ {p}) \cap present) :
     \A m \in D : (Subtree(m) \cap present) \subseteq D}

\* One iteration of the loop of clean.
clean_step ==
  /\ mainpc = "clean"
  /\ clean_i <= Len(clean_list)
  /\ LET p == clean_list[clean_i].path IN
       \E ok \in BOOLEAN :
         /\ rm_log' = Append(rm_log, [path |-> p, ok |-> ok])
         /\ clean_i' = clean_i + 1
         /\ mainpc' = clean_after(ok)
         /\ IF ok
            THEN present' = present \ Subtree(p)
            ELSE \E D \in PartlyRemoved(p) : present' = present \ D
  /\ UNCHANGED <<fsVars, argVars, ioVars, storeVars, actor, walkVars, sizeVars>>

\* main.rs:247, 82-83: the loop is over, clean returns Ok(()).
clean_done ==
  /\ mainpc = "clean"
  /\ clean_i > Len(clean_list)
  /\ mainpc' = "exit_done"
  /\ UNCHANGED <<present, fsVars, argVars, ioVars, storeVars, actor, walkVars,
                 sizeVars, cleanVars>>

(***************************************************************************)
(* main (main.rs:44-84).                                                   *)
(***************************************************************************)
\* char::is_whitespace, on the characters an answer is made of.
is_whitespace(c) == c \in {" ", "\t", "\r", "\n"}

\* char::to_lowercase, on the characters an answer is made of.
lower(c) ==
  CASE c = "Y" -> "y"
    [] c = "E" -> "e"
    [] c = "S" -> "s"
    [] c = "N" -> "n"
    [] c = "O" -> "o"
    [] OTHER -> c

RECURSIVE trim_start(_)
trim_start(s) ==
  IF s # <<>> /\ is_whitespace(Head(s)) THEN trim_start(Tail(s)) ELSE s

RECURSIVE trim_end(_)
trim_end(s) ==
  IF s # <<>> /\ is_whitespace(s[Len(s)])
  THEN trim_end(SubSeq(s, 1, Len(s) - 1))
  ELSE s

\* main.rs:74: inp.trim().to_lowercase().
trim_lower(s) ==
  LET t == trim_end(trim_start(s)) IN [i \in DOMAIN t |-> lower(t[i])]

\* The lines the user may type at the prompt.
Answers ==
  {<<"y", "e", "s", "\n">>, <<" ", "Y", "e", "S", " ", "\r", "\n">>,
   <<"y", "\n">>, <<"n", "o", "\n">>, <<"\n">>, <<>>,
   <<"y", "e", "s", " ", "y", "e", "s", "\n">>, <<"y", " ", "e", "s", "\n">>}

\* main.rs:54-62: the root must exist; the store is built, the walk is
\* spawned and awaited.
main_start ==
  /\ mainpc = "start"
  /\ IF scan_root \notin present
     THEN /\ mainpc' = "err_root"
          /\ UNCHANGED wpc
     ELSE \E overflow_checks \in BOOLEAN :
            IF overflow_checks /\ overflows(arg_keep_size)
            THEN /\ mainpc' = "panic"
                 /\ UNCHANGED wpc
            ELSE /\ mainpc' = "walking"
                 /\ wpc' = [wpc EXCEPT ![scan_root] = "start"]
  /\ UNCHANGED <<present, fsVars, argVars, ioVars, storeVars, actor, wkids,
                 sizeVars, cleanVars>>

\* The handle of the walk taken as resolved whether the task has ended or
\* not.
walk_joined_unawaited == TRUE

\* main.rs:62: the join handle of the walk has resolved.
walk_joined == wpc[scan_root] \in {"ok", "err"}

\* main.rs:62: the join handle of the walk resolves; `??` returns its Err.
main_walked ==
  /\ mainpc = "walking"
  /\ walk_joined
  /\ mainpc' = IF wpc[scan_root] = "err" THEN "err_walk" ELSE "display"
  /\ UNCHANGED <<present, fsVars, argVars, ioVars, storeVars, actor, walkVars,
                 sizeVars, cleanVars>>

RECURSIVE sum_size(_)
\* main.rs:234: iter().map(|it| it.size).sum().
sum_size(infos) ==
  IF infos = <<>> THEN 0 ELSE Head(infos).size + sum_size(Tail(infos))

\* The total taken over both lists.
total_size_all(ps, igs) == sum_size(ps \o igs)

\* main.rs:234: total_size, the sum of the sizes of `projects`.
total_size(ps, igs) == sum_size(ps)

\* main.rs:221-241: what display prints: the two lists and the totals line.
display ==
  [ignoring |-> ignores,
   selected |-> projects,
   count |-> Len(projects),
   total |-> Len(projects) + Len(ignores),
   total_size |-> total_size(projects, ignores)]

\* main.rs:63, 269-275: store.display() runs in the actor.
main_display ==
  /\ mainpc = "display"
  /\ inner_call_free
  /\ stdout' = Append(stdout, display)
  /\ mainpc' = "flags"
  /\ UNCHANGED <<present, fsVars, argVars, tested, flags, inp, storeVars,
                 actor, walkVars, sizeVars, cleanVars>>

\* main.rs:64-67: --dry-run ends the run here.
main_dry_run ==
  /\ mainpc = "flags"
  /\ \E dry_run \in BOOLEAN :
       /\ tested' = tested \cup {"dry_run"}
       /\ flags' = IF dry_run THEN flags \cup {"dry_run"} ELSE flags
       /\ mainpc' = IF dry_run THEN "exit_dry" ELSE "confirm"
  /\ UNCHANGED <<present, fsVars, argVars, inp, stdout, storeVars, actor,
                 walkVars, sizeVars, cleanVars>>

\* The test that cancels on "no" alone.
confirmed_unless_no(line) == trim_lower(line) # <<"n", "o">>

\* main.rs:74-75: the answer, trimmed and lower-cased, is "yes".
confirmed(line) == trim_lower(line) = <<"y", "e", "s">>

\* main.rs:69-81: without --yes a line is read and must be "yes"; then
\* store.clean() enters the actor.
main_confirm ==
  /\ mainpc = "confirm"
  /\ \E yes \in BOOLEAN :
       /\ tested' = tested \cup {"yes"}
       /\ flags' = IF yes THEN flags \cup {"yes"} ELSE flags
       /\ IF yes
          THEN /\ inp' = inp
               /\ mainpc' = "clean"
          ELSE \E line \in Answers :
                 /\ inp' = line
                 /\ mainpc' = IF confirmed(line)
                              THEN "clean" ELSE "exit_cancelled"
  /\ mainpc' = "clean" => inner_call_free
  /\ UNCHANGED <<present, fsVars, argVars, stdout, storeVars, actor,
                 walkVars, sizeVars, cleanVars>>

(***************************************************************************)
(* The program on an unchanging filesystem.                                *)
(***************************************************************************)
Next ==
  \/ main_start
  \/ main_walked
  \/ main_display
  \/ main_dry_run
  \/ main_confirm
  \/ clean_step
  \/ clean_done
  \/ \E n \in Dirs : iter_path_start(n)
  \/ \E n \in Dirs : iter_path_list(n)
  \/ \E n \in Dirs : iter_path_meta(n)
  \/ \E n \in Dirs : iter_path_sized(n)
  \/ \E n \in Dirs : add_path_info_call(n)
  \/ \E n \in Dirs : add_path_info_run(n)
  \/ \E n \in Dirs : iter_path_join(n)
  \/ \E n \in Nodes : iter_file_size_start(n)
  \/ \E n \in Nodes : iter_file_size_join(n)

Spec == Init /\ [][Next]_vars

\* The program with any --keep-size that u64 holds.
SpecWide == InitWide /\ [][Next]_vars

(***************************************************************************)
(* The program beside another process that removes a directory or a file   *)
(* (with everything below it) while the walk runs.                         *)
(***************************************************************************)
env_remove(n) ==
  /\ mainpc = "walking"
  /\ present = Nodes
  /\ present' = present \ Subtree(n)
  /\ UNCHANGED <<fsVars, argVars, ioVars, storeVars, actor, walkVars, sizeVars,
                 mainpc, cleanVars>>

NextEnv ==
  \/ Next
  \/ \E n \in Nodes \ {scan_root} : env_remove(n)

\* Every directory can be listed until the other process removes it.
InitEnv == Init /\ unreadable = {}

SpecEnv == InitEnv /\ [][NextEnv]_vars

\* One policy and one clock: neither bears on which task can take a step.
InitFair ==
  /\ InitEnv
  /\ keep_days = 0
  /\ arg_keep_size.lo = 0
  /\ now = MTime[3]

\* The same under the scheduling of tokio: a task that can take a step, and
\* main, are not left waiting for ever.  The other process is not bound to
\* do anything.
SpecFair == InitFair /\ [][NextEnv]_vars /\ WF_vars(Next)

(***************************************************************************)
(* What the properties below speak about.                                  *)
(***************************************************************************)
\* Cargo.toml lies beside n in the tree the walk starts on.
HasManifest(n) ==
  \E m \in Nodes : Parent[m] = Parent[n] /\ Name[m] = "Cargo.toml"

\* The artifact roots: the directories named target with a manifest beside.
GenuineDirs == {n \in Dirs : Name[n] = "target" /\ HasManifest(n)}

\* n is an artifact root.
Genuine(n) == n \in GenuineDirs

\* The walk has called iter_path on n.
Visited(n) == wpc[n] # "idle"

\* The set of the members of a sequence.
Range(seq) == {seq[i] : i \in DOMAIN seq}

\* The paths of the records of a sequence.
Paths(seq) == {seq[i].path : i \in DOMAIN seq}

\* The walker of n has returned from add_path_info.
AddReturned(n) == Genuine(n) /\ wpc[n] = "ok"

\* The walk is over and main has gone on.
WalkOver == mainpc \notin {"start", "walking", "err_root", "panic"}

(***************************************************************************)
(* C1.  add(record) appends the record to exactly one of the two           *)
(* sequences: to `ignores` if and only if size <= keep_size or the age in  *)
(* whole days, floor(elapsed seconds / 86400), is below keep_days, and to  *)
(* `projects` otherwise.  (The age is defined when last_modified is not    *)
(* later than the clock.)                                                  *)
(***************************************************************************)
C1_Kept(r) ==
  r.size <= keep_size \/ (now - r.last_modified) \div 86400 < keep_days

\* C1: a record is in `ignores` iff size <= keep_size or its age in whole
\* days is below keep_days, in `projects` otherwise, and in exactly one.
C1_Classification ==
  /\ \A r \in Range(ignores) : now >= r.last_modified => C1_Kept(r)
  /\ \A r \in Range(projects) : now >= r.last_modified => ~C1_Kept(r)
  /\ \A n \in Dirs :
       AddReturned(n) =>
         /\ (n \in Paths(ignores)) # (n \in Paths(projects))
         /\ Cardinality({i \in DOMAIN ignores : ignores[i].path = n})
              + Cardinality({i \in DOMAIN projects : projects[i].path = n})
            = 1

\* Both boundaries at once: a record one byte above keep_size whose age is
\* exactly keep_days is selected, a record of exactly keep_size bytes whose
\* age is keep_days - 1 is ignored.
C1_Witness ==
  /\ keep_days >= 1
  /\ keep_size >= 1
  /\ \E r \in Range(projects) :
       /\ r.size = keep_size + 1
       /\ now >= r.last_modified
       /\ (now - r.last_modified) \div 86400 = keep_days
  /\ \E r \in Range(ignores) :
       /\ r.size = keep_size
       /\ now >= r.last_modified
       /\ (now - r.last_modified) \div 86400 = keep_days - 1

(***************************************************************************)
(* C2.  add is linearizable: at most one add runs inside the store at a    *)
(* time, and in every state the two sequences together hold exactly the    *)
(* whole records of the adds that have returned, each once and in one      *)
(* sequence only, so that |ignores| + |projects| is the number of adds     *)
(* that have returned.                                                     *)
(***************************************************************************)
\* C2: adds run one at a time and the sequences hold exactly the records of
\* the adds that returned, each once.
C2_Linearizable ==
  /\ Cardinality({n \in Dirs : wpc[n] = "push"}) <= 1
  /\ Range(ignores) \cup Range(projects)
       = {PathInfo(n) : n \in {m \in Dirs : AddReturned(m)}}
  /\ Len(ignores) + Len(projects)
       = Cardinality({n \in Dirs : AddReturned(n)})
  /\ Paths(ignores) \cap Paths(projects) = {}

\* Two walker tasks are in add at once: one runs in the store, one waits.
C2_Witness ==
  \E a, b \in Dirs : a # b /\ wpc[a] = "push" /\ wpc[b] = "add"

(***************************************************************************)
(* C3.  Exactly one record is emitted for each artifact root the walk      *)
(* reaches, the walk visits no directory below an artifact root it         *)
(* reached, and no record is emitted for anything below such a root.       *)
(***************************************************************************)
C3_Emitted(n) ==
  Cardinality({i \in DOMAIN ignores : ignores[i].path = n})
    + Cardinality({i \in DOMAIN projects : projects[i].path = n})

\* C3: one record per artifact root reached, none and no visit below it.
C3_OneRecordPerRoot ==
  /\ \A n \in Dirs :
       Genuine(n) /\ Visited(n) =>
         /\ C3_Emitted(n) <= 1
         /\ (wpc[n] = "ok" \/ WalkOver) => C3_Emitted(n) = 1
         /\ \A m \in Dirs : Below(m, n) => ~Visited(m) /\ C3_Emitted(m) = 0
  /\ \A n \in Dirs : ~(Genuine(n) /\ Visited(n)) => C3_Emitted(n) = 0

\* The walk is over: roots 3 and 13 have their record, and the marker
\* directory 5 below root 3, with a manifest beside it, was never visited.
C3_Witness ==
  /\ WalkOver
  /\ C3_Emitted(3) = 1
  /\ C3_Emitted(13) = 1
  /\ Genuine(5)
  /\ ~Visited(5)

(***************************************************************************)
(* C4.  For every directory d named target that the walk visits: a record  *)
(* for d is emitted iff Cargo.toml exists in the parent of d; when it      *)
(* exists the walk does not recurse into d; when it is absent no record is *)
(* emitted for d and the walk recurses into the subdirectories of d like   *)
(* into those of any directory it can list.                                *)
(***************************************************************************)
\* C4: a visited directory named target gets a record iff Cargo.toml is
\* beside it, and is recursed into iff it is not.
C4_ManifestDecides ==
  \A d \in Dirs :
    Name[d] = "target" /\ Visited(d) =>
      IF HasManifest(d)
      THEN /\ wpc[d] \notin {"list", "join"}
           /\ wpc[d] = "ok" => C3_Emitted(d) = 1
           /\ \A c \in Dirs : Parent[c] = d => ~Visited(c)
      ELSE /\ wpc[d] \notin {"meta", "size", "add", "push"}
           /\ C3_Emitted(d) = 0
           /\ spc[d] = "idle"
           /\ wpc[d] \in {"join", "ok"} /\ d \notin unreadable =>
                \A c \in Dirs : Parent[c] = d => Visited(c)

\* Directory 11 is named target without a manifest: it has no record and its
\* subdirectory 13 was walked and has one; directory 3 has a manifest: it
\* has a record and its subdirectory 5 was not walked.
C4_Witness ==
  /\ wpc[11] = "ok"
  /\ C3_Emitted(11) = 0
  /\ wpc[13] = "ok"
  /\ C3_Emitted(13) = 1
  /\ wpc[3] = "ok"
  /\ C3_Emitted(3) = 1
  /\ ~Visited(5)

(***************************************************************************)
(* C5.  A directory named .git that the walk visits is pruned: it gets no  *)
(* record, nothing below it is ever visited or measured, and no record is  *)
(* emitted for anything below it, manifest or not.                         *)
(***************************************************************************)
\* C5: nothing at or below a visited .git is recorded, visited or measured.
C5_GitPruned ==
  \A g \in Dirs :
    Name[g] = ".git" /\ Visited(g) =>
      /\ wpc[g] \in {"start", "ok"}
      /\ C3_Emitted(g) = 0
      /\ spc[g] = "idle"
      /\ \A m \in Nodes :
           Below(m, g) =>
             /\ m \in Dirs => ~Visited(m) /\ C3_Emitted(m) = 0
             /\ spc[m] = "idle"

\* The walk is over, .git (7) was visited, and the marker directory 9 below
\* it, with a manifest beside it, was not.
C5_Witness ==
  /\ WalkOver
  /\ wpc[7] = "ok"
  /\ Genuine(9)
  /\ ~Visited(9)
  /\ C3_Emitted(9) = 0

(***************************************************************************)
(* C6.  clean attempts deletions only on the paths of the records of       *)
(* `projects`, in sequence order, and stops at the first deletion that     *)
(* fails: it returns that failure, attempts no record after it, leaves     *)
(* what was deleted before deleted, and never deletes the path of a record *)
(* of `ignores`.                                                           *)
(***************************************************************************)
\* C6: the deletions are a prefix of `projects` in order, only the last one
\* may have failed, and no path of `ignores` is deleted.
C6_CleanStopsAtFirstFailure ==
  /\ Len(rm_log) <= Len(projects)
  /\ \A i \in DOMAIN rm_log :
       /\ rm_log[i].path = projects[i].path
       /\ i < Len(rm_log) => rm_log[i].ok
       /\ rm_log[i].ok => Subtree(rm_log[i].path) \cap present = {}
       /\ ~rm_log[i].ok => mainpc = "err_clean"
  /\ mainpc = "err_clean" => rm_log # <<>> /\ ~rm_log[Len(rm_log)].ok
  /\ mainpc = "exit_done" => Len(rm_log) = Len(projects)
  /\ rm_log # <<>> => mainpc \in {"clean", "err_clean", "exit_done"}
  /\ \A i \in DOMAIN projects : i > Len(rm_log) => projects[i].path \in present
  /\ \A r \in Range(ignores) : Subtree(r.path) \subseteq present

\* The first of two deletions failed: clean has returned the failure and the
\* second record was not attempted.
C6_Witness ==
  /\ mainpc = "err_clean"
  /\ Len(projects) = 2
  /\ Len(rm_log) = 1
  /\ ~rm_log[1].ok
  /\ projects[2].path \in present

(***************************************************************************)
(* C7.  A failure inside a walker task, at any depth, fails every ancestor *)
(* call that returns: no ancestor returns Ok, the top-level walk returns   *)
(* an error, and main then neither reports nor cleans.  A directory that   *)
(* cannot be listed fails nothing: every error starts at an artifact root  *)
(* whose metadata could not be read.                                       *)
(***************************************************************************)
\* C7: no ancestor of a failed walker task returns Ok, main ends in the walk
\* error without cleaning, and every error starts at unreadable metadata.
C7_ErrorsPropagate ==
  /\ \A n \in Dirs :
       wpc[n] = "err" =>
         /\ n # scan_root => wpc[Parent[n]] \in {"join", "err"}
         /\ wpc[scan_root] # "ok"
         /\ WalkOver => mainpc = "err_walk"
         /\ \E m \in Subtree(n) \cap Dirs :
              wpc[m] = "err" /\ Genuine(m) /\ m \notin present
  /\ mainpc = "err_walk" => wpc[scan_root] = "err" /\ rm_log = <<>>

\* Root 13, three levels down, failed, and so did 11, 10, 1 and main.
C7_Witness ==
  /\ mainpc = "err_walk"
  /\ wpc[13] = "err"
  /\ wpc[11] = "err"
  /\ wpc[10] = "err"
  /\ wpc[1] = "err"
  /\ 3 \in present

(***************************************************************************)
(* C8.  A visited directory that cannot be listed is treated as empty and  *)
(* its branch returns success: no walker task fails, the walk succeeds,    *)
(* and every artifact root that lies on a branch of listable directories   *)
(* gets its record.                                                        *)
(***************************************************************************)
\* The walk lists directory p and spawns a task for each subdirectory.
C8_Listed(p) == Name[p] # ".git" /\ ~Genuine(p) /\ p \notin unreadable

RECURSIVE C8_Reached(_)
\* The walk started on scan_root calls iter_path on n.
C8_Reached(n) ==
  IF n = scan_root THEN TRUE
  ELSE IF Parent[n] = NoNode THEN FALSE
  ELSE C8_Listed(Parent[n]) /\ C8_Reached(Parent[n])

\* C8: a directory that cannot be listed fails nothing and hides only what
\* is below it.
C8_UnreadableTolerated ==
  /\ \A n \in Dirs : wpc[n] # "err"
  /\ mainpc # "err_walk"
  /\ \A d \in unreadable :
       Visited(d) /\ ~Genuine(d) /\ Name[d] # ".git" =>
         /\ wpc[d] \in {"start", "list", "ok"}
         /\ \A c \in Dirs : Parent[c] = d => ~Visited(c)
  /\ WalkOver =>
       \A n \in Dirs : Genuine(n) /\ C8_Reached(n) => C3_Emitted(n) = 1

\* ./lib (10) cannot be listed: its task returned Ok, nothing below it was
\* visited, the walk is over and root 3 has its record.
C8_Witness ==
  /\ unreadable = {10}
  /\ wpc[10] = "ok"
  /\ ~Visited(11)
  /\ WalkOver
  /\ C3_Emitted(3) = 1

(***************************************************************************)
(* C9.  Stated of every tree: iter_file_size(T) returns the sum of the     *)
(* lengths of all regular files under T.  It holds of the files that are   *)
(* reached through directories that can be listed; a directory that cannot *)
(* be listed counts 0, with everything below it.  The size of a record is  *)
(* that total, and no size task below its path is still running.           *)
(***************************************************************************)
\* The sum of the lengths of the files of S among the first i nodes.
C9_SumTo[i \in 0..Len(Parent), S \in SUBSET Files] ==
  IF i = 0 THEN 0
  ELSE C9_SumTo[i - 1, S] + (IF i \in S THEN flen[i] ELSE 0)

\* The sum of the lengths of a set of files.
C9_Sum(S) == C9_SumTo[Len(Parent), S]

\* The regular files under n.
C9_FilesUnder(n) == Files \cap Subtree(n)

\* Those reached from n through directories that can be listed.
C9_FilesReached(n) ==
  {f \in C9_FilesUnder(n) :
     \A a \in Ancestors(f) \cap Subtree(n) : a \notin unreadable}

\* C9, as amended: the size returned for T, and stored in a record, is the
\* sum of the lengths of the regular files reached from T through
\* directories that can be listed.
C9_SizeIsSumOfReachedFiles ==
  /\ \A n \in Nodes : spc[n] = "done" => slen[n] = C9_Sum(C9_FilesReached(n))
  /\ \A r \in Range(ignores) \cup Range(projects) :
       /\ r.size = C9_Sum(C9_FilesReached(r.path))
       /\ \A m \in Subtree(r.path) : spc[m] \in {"idle", "done"}

\* C9, as stated: the size returned for T, and stored in a record, is the
\* sum of the lengths of all regular files under T.
C9_SizeIsSumOfAllFiles ==
  /\ \A n \in Nodes : spc[n] = "done" => slen[n] = C9_Sum(C9_FilesUnder(n))
  /\ \A r \in Range(ignores) \cup Range(projects) :
       r.size = C9_Sum(C9_FilesUnder(r.path))

\* Directory 5 below root 3 cannot be listed: root 3 was measured by its
\* spawned tasks and its record holds the length of file 4 alone.
C9_Witness ==
  /\ unreadable = {5}
  /\ \E r \in Range(ignores) \cup Range(projects) :
       /\ r.path = 3
       /\ r.size = flen[4]
       /\ r.size > 0
  /\ spc[5] = "done"
  /\ spc[6] = "idle"

(***************************************************************************)
(* C10.  For a fixed tree, policy and clock the final partition does not   *)
(* depend on the schedule: once the walk is over, the set of records of    *)
(* `projects` and the set of records of `ignores` are functions of the     *)
(* tree, the policy and the clock alone.                                   *)
(***************************************************************************)
\* The record of artifact root n, from the tree alone.
C10_Info(n) ==
  [path |-> n, last_modified |-> MTime[n],
   size |-> C9_Sum(C9_FilesReached(n))]

\* The roots that are kept, from the tree, the policy and the clock alone.
C10_Kept(n) ==
  \/ C10_Info(n).size <= keep_size
  \/ (IF now >= MTime[n] THEN (now - MTime[n]) \div 86400 ELSE 0) < keep_days

C10_Roots == {n \in Dirs : Genuine(n) /\ C8_Reached(n)}

\* C10: after the walk the two sets of records are functions of the tree,
\* the policy and the clock.
C10_ScheduleIndependent ==
  WalkOver =>
    /\ Range(projects) = {C10_Info(n) : n \in {m \in C10_Roots : ~C10_Kept(m)}}
    /\ Range(ignores) = {C10_Info(n) : n \in {m \in C10_Roots : C10_Kept(m)}}
    /\ Len(projects) + Len(ignores) = Cardinality(C10_Roots)

\* The walk is over and the record of root 13 arrived before that of root 3,
\* whose task was spawned first.
C10_Witness ==
  /\ WalkOver
  /\ Len(projects) = 2
  /\ projects[1].path = 13
  /\ projects[2].path = 3

(***************************************************************************)
(* C11.  clean is invoked only after the root existed, the walk returned   *)
(* success and display completed, without --dry-run, and with --yes or an  *)
(* answer that is "yes" once trimmed and lower-cased.  With --dry-run, or  *)
(* with any other answer, nothing is deleted and main returns Ok.          *)
(***************************************************************************)
\* clean has been invoked.
C11_CleanInvoked ==
  mainpc \in {"clean", "err_clean", "exit_done"} \/ rm_log # <<>>

\* The line is "yes" in any case between leading and trailing white space.
C11_IsYes(line) ==
  \E i \in 0..Len(line) :
    /\ Len(line) >= i + 3
    /\ \A k \in 1..i : line[k] \in {" ", "\t", "\r", "\n"}
    /\ line[i + 1] \in {"y", "Y"}
    /\ line[i + 2] \in {"e", "E"}
    /\ line[i + 3] \in {"s", "S"}
    /\ \A k \in (i + 4)..Len(line) : line[k] \in {" ", "\t", "\r", "\n"}

C12_SelectedSize(n) ==
  IF \E r \in Range(projects) : r.path = n
  THEN (CHOOSE r \in Range(projects) : r.path = n).size
  ELSE 0

\* The sum of the sizes of the records of `projects`, path by path.
C12_SumTo[i \in 0..Len(Parent)] ==
  IF i = 0 THEN 0 ELSE C12_SumTo[i - 1] + C12_SelectedSize(i)

\* C12: display prints |projects|, |projects| + |ignores| and the sum of
\* the sizes of the records of `projects` alone.
C12_TotalsMatchStore ==
  \A i \in DOMAIN stdout :
    /\ stdout[i].count = Cardinality(DOMAIN projects)
    /\ stdout[i].total = Cardinality(Range(projects) \cup Range(ignores))
    /\ stdout[i].total_size = C12_SumTo[Len(Parent)]

\* A report over one selected record and one ignored record of non-zero
\* size: the total is the size of the selected one.
C12_Witness ==
  /\ stdout # <<>>
  /\ Len(projects) = 1
  /\ Len(ignores) = 1
  /\ ignores[1].size > 0
  /\ stdout[1].count = 1
  /\ stdout[1].total = 2
  /\ stdout[1].total_size = projects[1].size

(***************************************************************************)
(* C13.  Stated of every return: iter_path on d returns only after every   *)
(* task it spawned has completed.  It holds of the return of Ok(()); an    *)
(* Err is returned at the first handle, in spawn order, that yields one,   *)
(* while the tasks spawned after it may still run.  Once the top-level     *)
(* walk has returned Ok(()) no task runs and no add is pending.            *)
(***************************************************************************)
\* The tasks iter_path on d has spawned.
C13_SpawnedBy(d) == {c \in Dirs : Parent[c] = d /\ Visited(c)}

\* The task has completed.
C13_Completed(c) == wpc[c] \in {"ok", "err"}

\* main has gone past the walk with Ok(()).
C13_WalkedOk ==
  mainpc \in {"display", "flags", "confirm", "exit_dry", "exit_cancelled",
              "clean", "err_clean", "exit_done"}

C14_Deleted == [i \in DOMAIN rm_log |-> rm_log[i].path]

\* The paths display listed as selected, in order.
C14_Displayed ==
  [i \in DOMAIN stdout[1].selected |-> stdout[1].selected[i].path]

\* C14: once display has run the store is what display listed, no add is
\* pending or running, and clean deletes the listed selection in order, all
\* of it when it returns Ok(()).
C14_FinalStoreObserved ==
  /\ mainpc = "display" =>
       /\ \A n \in Dirs : wpc[n] \in {"idle", "ok"}
       /\ actor = NoNode
  /\ stdout # <<>> =>
       /\ Len(stdout) = 1
       /\ stdout[1].selected = projects
       /\ stdout[1].ignoring = ignores
       /\ \A n \in Dirs : wpc[n] \in {"idle", "ok"}
       /\ actor = NoNode
       /\ Len(C14_Deleted) <= Len(C14_Displayed)
       /\ C14_Deleted = SubSeq(C14_Displayed, 1, Len(C14_Deleted))
       /\ mainpc = "exit_done" => C14_Deleted = C14_Displayed
  /\ stdout = <<>> => rm_log = <<>>

\* clean has deleted the two directories display listed, in the order of
\* the listing, which is not the order the tasks were spawned in.
C14_Witness ==
  /\ mainpc = "exit_done"
  /\ Len(stdout) = 1
  /\ Len(stdout[1].selected) = 2
  /\ stdout[1].selected[1].path = 13
  /\ C14_Deleted = <<13, 3>>

(***************************************************************************)
(* C15.  Stated of iter_file_size: when the metadata of an entry that is a *)
(* regular file cannot be read, the failure is returned as an error and    *)
(* the file is not counted as 0 bytes.  iter_file_size has no such return: *)
(* the entry falls to read_dir, which fails, and Ok(0) is returned.        *)
(***************************************************************************)
\* C15, as stated: the task of an entry that is a regular file returns Ok
\* with the length of the file only; when the metadata cannot be read,
\* because the file is gone, it does not return Ok(0).
C15_FileFailurePropagates ==
  \A f \in Files : spc[f] = "done" => slen[f] = flen[f]

(***************************************************************************)
(* C16.  Stated of the walk: whatever another process removes while the    *)
(* walk runs, an artifact root whose manifest was just seen included, the  *)
(* walk returns success and the remaining roots get their records.         *)
(* path.metadata()? at main.rs:104 fails the walk instead.                 *)
(***************************************************************************)
\* C16, as stated: after a removal by another process no walker task fails,
\* the walk returns success, and every artifact root that is still there
\* and reached through directories that are still there has its record.
C16_RemovalTolerated ==
  present # Nodes =>
    /\ \A n \in Dirs : wpc[n] # "err"
    /\ mainpc # "err_walk"
    /\ WalkOver =>
         \A n \in Dirs :
           /\ Genuine(n)
           /\ C8_Reached(n)
           /\ Subtree(n) \cup Ancestors(n) \subseteq present
           => C3_Emitted(n) = 1

(***************************************************************************)
(* C17.  Under fair scheduling the walk returns, with Ok(()) or with an    *)
(* Err: main does not wait for ever for the handle of the walk, nor a      *)
(* walker task for the store or for the size of its directory.             *)
(***************************************************************************)
\* main has got the result of the walk.
C17_Returned == mainpc \in {"display", "err_walk"}

\* C17: a walk that has started returns to main, and a task that waits for
\* the store or for a size gets it, unless main has returned an Err before.
C17_WalkReturns ==
  /\ (mainpc = "walking") ~> C17_Returned
  /\ \A n \in GenuineDirs :
       (wpc[n] \in {"size", "add"}) ~> (wpc[n] = "ok" \/ mainpc = "err_walk")

\* The walk has returned Ok(()) with two records added and the sizes of two
\* directories computed by spawned tasks.
C17_Witness ==
  /\ mainpc = "display"
  /\ Len(ignores) + Len(projects) = 2
  /\ spc[3] = "done"
  /\ spc[13] = "done"
  /\ spc[14] = "done"

(***************************************************************************)
(* C18.  Stated of a record whose last_modified is later than the clock:   *)
(* push takes its age as 0 days, so the record goes to `ignores` and never *)
(* to `projects`.  The age is 0, but with keep_days = 0 no age is below    *)
(* keep_days, and the size alone decides.                                  *)
(***************************************************************************)
\* The records whose last_modified is later than the clock.
C18_Future ==
  {r \in Range(ignores) \cup Range(projects) : now < r.last_modified}

\* C18, as amended: a record from the future is classified with age 0: it
\* is in `ignores` iff size <= keep_size or keep_days >= 1, and in
\* `projects` otherwise.
C18_FutureHasAgeZero ==
  \A r \in C18_Future :
    /\ r \in Range(ignores) <=> (r.size <= keep_size \/ keep_days >= 1)
    /\ r \in Range(projects) <=> (r.size > keep_size /\ keep_days = 0)

\* C18, as stated: a record from the future is in `ignores` and never in
\* `projects`.
C18_FutureIsKept ==
  \A r \in C18_Future : r \in Range(ignores) /\ r \notin Range(projects)

\* A record from the future, larger than keep_size, is kept by its age:
\* 0 days is below keep_days = 1.
C18_Witness ==
  /\ keep_days = 1
  /\ \E r \in Range(ignores) : now < r.last_modified /\ r.size > keep_size

(***************************************************************************)
(* C19.  In every state of the store no two records, of `ignores` and      *)
(* `projects` together, have the same path, and no path of a record lies   *)
(* below the path of another; a deletion of clean therefore removes the    *)
(* directory of no other record.                                           *)
(***************************************************************************)
\* The records of the store, those of `ignores` first.
C19_Records == ignores \o projects

\* C19: the paths of the records are distinct and none lies below another,
\* and the subtree a remove_dir_all was called on holds the path of no
\* other record.
C19_RecordsDisjoint ==
  /\ \A i, j \in DOMAIN C19_Records :
       i # j =>
         /\ C19_Records[i].path # C19_Records[j].path
         /\ ~Below(C19_Records[i].path, C19_Records[j].path)
  /\ \A k \in DOMAIN rm_log :
       \A i \in DOMAIN C19_Records :
         C19_Records[i].path \in Subtree(rm_log[k].path) =>
           /\ C19_Records[i].path = rm_log[k].path
           /\ i > Len(ignores)

\* ./target was deleted; the record of ./lib/target/target is kept and its
\* directory is still there; ./target/target, a marker with a manifest
\* beside it below ./target, never got a record.
C19_Witness ==
  /\ mainpc = "exit_done"
  /\ Len(rm_log) = 1
  /\ rm_log[1].path = 3
  /\ Len(ignores) = 1
  /\ ignores[1].path = 13
  /\ 13 \in present
  /\ Genuine(5)
  /\ C3_Emitted(5) = 0

(***************************************************************************)
(* C20.  Stated of every u64 --keep-size: the threshold of the store is    *)
(* that number of megabytes times 1,048,576, the multiplication never      *)
(* wraps, and no record at or below the number of megabytes asked for is   *)
(* selected.  From 2^44 megabytes on the product does not fit u64.         *)
(***************************************************************************)
\* PathInfoStore::new has returned.
C20_StoreBuilt == mainpc \notin {"start", "err_root", "panic"}

\* size <= mb * 1,048,576, for mb = hi * 2^44 + lo and a size below 2^64.
C20_AtMost(size, mb) == mb.hi > 0 \/ size <= mb.lo * 1048576

\* C20, as stated: the threshold the store holds is arg_keep_size times
\* 1,048,576, a number below 2^64 only when hi = 0, and no record of at
\* most arg_keep_size megabytes is in `projects`.
C20_ThresholdNeverWraps ==
  C20_StoreBuilt =>
    /\ arg_keep_size.hi = 0
    /\ keep_size = arg_keep_size.lo * 1048576
    /\ \A r \in Range(projects) : ~C20_AtMost(r.size, arg_keep_size)

====
